---- MODULE Spec2Model ----
(***************************************************************************)
(* Model of sphinxcontrib/bibtex/domain.py: the filter expression visitor, *)
(* the BibtexDomain registry (bibliographies, citation_refs, citations)    *)
(* and its operations clear_doc, merge_domaindata and check_consistency.   *)
(*                                                                         *)
(* Text (keys, labels, ids, field values, document names) is a sequence of *)
(* one-character strings, so that concatenation, lower-casing, regular     *)
(* expression search and docutils' make_id are computed character by       *)
(* character.                                                              *)
(***************************************************************************)
EXTENDS Integers, Sequences, FiniteSets, TLC

(***************************************************************************)
(* Bounds of the model.                                                    *)
(***************************************************************************)
\* most bibliography directives held by the registry at one time
MaxBibs == 3
\* most citation references held by the registry at one time
MaxRefs == 3
\* most Citation records held by the registry at one time
MaxCitations == 9
\* most bibliographies, and most citation references, of a foreign registry
MaxForeign == 1

(***************************************************************************)
(* Characters and text.                                                    *)
(***************************************************************************)
UpperChars == <<"A","B","C","D","E","F","G","H","I","J","K","L","M",
                "N","O","P","Q","R","S","T","U","V","W","X","Y","Z">>
LowerChars == <<"a","b","c","d","e","f","g","h","i","j","k","l","m",
                "n","o","p","q","r","s","t","u","v","w","x","y","z">>
DigitChars == <<"0","1","2","3","4","5","6","7","8","9">>
\* the characters of the model in code point order
CharOrder == <<" ", "(", ")", "-">> \o DigitChars \o UpperChars
             \o <<"_">> \o LowerChars

Range(s) == {s[i] : i \in DOMAIN s}

IndexIn(c, s) == CHOOSE i \in DOMAIN s : s[i] = c

\* str.lower on one character
LowerChar(c) == IF c \in Range(UpperChars)
                THEN LowerChars[IndexIn(c, UpperChars)] ELSE c

\* str.lower
Lower(s) == [i \in DOMAIN s |-> LowerChar(s[i])]

Ord(c) == IndexIn(c, CharOrder)

\* Python's str < str: lexicographic by code point
RECURSIVE StrLess(_, _)
StrLess(a, b) ==
    IF b = <<>> THEN FALSE
    ELSE IF a = <<>> THEN TRUE
    ELSE IF a[1] # b[1] THEN Ord(a[1]) < Ord(b[1])
    ELSE StrLess(Tail(a), Tail(b))

\* Python's a in b for two strings: a is a substring of b
IsSubstring(a, b) ==
    \E i \in 0..(Len(b) - Len(a)) : SubSeq(b, i + 1, i + Len(a)) = a

\* str(num) for a natural number
RECURSIVE Str(_)
Str(n) == IF n < 10 THEN <<DigitChars[n + 1]>>
          ELSE Str(n \div 10) \o <<DigitChars[(n % 10) + 1]>>

\* sep.join(parts)
RECURSIVE Join(_, _)
Join(sep, parts) ==
    IF parts = <<>> THEN <<>>
    ELSE IF Len(parts) = 1 THEN parts[1]
    ELSE parts[1] \o sep \o Join(sep, Tail(parts))

IsAlnumLower(c) == c \in Range(LowerChars) \cup Range(DigitChars)

\* re.sub('[^a-z0-9]+', '-', s): every run of other characters becomes one "-"
RECURSIVE SubNonId(_)
SubNonId(s) ==
    IF s = <<>> THEN <<>>
    ELSE IF IsAlnumLower(s[1]) THEN <<s[1]>> \o SubNonId(Tail(s))
    ELSE LET rest == SubNonId(Tail(s))
         IN  IF Len(s) > 1 /\ ~IsAlnumLower(s[2]) THEN rest
             ELSE <<"-">> \o rest

\* re.sub('^[-0-9]+', '', s)
RECURSIVE StripLead(_)
StripLead(s) ==
    IF s # <<>> /\ (s[1] = "-" \/ s[1] \in Range(DigitChars))
    THEN StripLead(Tail(s)) ELSE s

\* re.sub('-+$', '', s)
RECURSIVE StripTrail(_)
StripTrail(s) ==
    IF s # <<>> /\ s[Len(s)] = "-"
    THEN StripTrail(SubSeq(s, 1, Len(s) - 1)) ELSE s

\* docutils.nodes.make_id: lower-case, replace the runs of characters that
\* are not in [a-z0-9] by a hyphen, strip hyphens and digits at the start
\* and hyphens at the end
make_id(s) == StripTrail(StripLead(SubNonId(Lower(s))))

\* "bibtex-citation-%s" % key
format_id(key) ==
    <<"b","i","b","t","e","x","-","c","i","t","a","t","i","o","n","-">> \o key

(***************************************************************************)
(* Values of the filter language: Python str, bool, int, frozenset, None   *)
(* and the match object of re.search, each tagged with its type.           *)
(***************************************************************************)
VStr(s)  == [t |-> "str", v |-> s]
VBool(b) == [t |-> "bool", v |-> b]
VInt(n)  == [t |-> "int", v |-> n]
VSet(S)  == [t |-> "set", v |-> S]
VNone    == [t |-> "none", v |-> 0]
VMatch   == [t |-> "match", v |-> 0]

IsNum(x) == x.t \in {"bool", "int"}

\* the integer a bool or int stands for (bool is a subclass of int)
NumOf(x) == IF x.t = "bool" THEN (IF x.v THEN 1 ELSE 0) ELSE x.v

\* bool(x)
Truthy(x) ==
    CASE x.t = "str"   -> x.v # <<>>
      [] x.t = "bool"  -> x.v
      [] x.t = "int"   -> x.v # 0
      [] x.t = "set"   -> x.v # {}
      [] x.t = "none"  -> FALSE
      [] x.t = "match" -> TRUE

\* left == right
PyEq(x, y) ==
    IF IsNum(x) /\ IsNum(y) THEN NumOf(x) = NumOf(y)
    ELSE IF x.t # y.t THEN FALSE
    ELSE IF x.t = "match" THEN FALSE
    ELSE x.v = y.v

\* a returned value, or a raised exception
Ok(x)    == [exc |-> "none", v |-> x]
Raise(e) == [exc |-> e, v |-> VNone]

\* left < right; TypeError unless both are strings, both numbers or both sets
PyLess(x, y) ==
    IF x.t = "str" /\ y.t = "str" THEN Ok(VBool(StrLess(x.v, y.v)))
    ELSE IF IsNum(x) /\ IsNum(y) THEN Ok(VBool(NumOf(x) < NumOf(y)))
    ELSE IF x.t = "set" /\ y.t = "set"
         THEN Ok(VBool(x.v \subseteq y.v /\ x.v # y.v))
    ELSE Raise("TypeError")

\* left <= right
PyLessEq(x, y) ==
    IF x.t = "str" /\ y.t = "str"
         THEN Ok(VBool(x.v = y.v \/ StrLess(x.v, y.v)))
    ELSE IF IsNum(x) /\ IsNum(y) THEN Ok(VBool(NumOf(x) <= NumOf(y)))
    ELSE IF x.t = "set" /\ y.t = "set" THEN Ok(VBool(x.v \subseteq y.v))
    ELSE Raise("TypeError")

\* left in right; TypeError unless right is a set, or both are strings
PyIn(x, y) ==
    IF y.t = "set" THEN Ok(VBool(\E e \in y.v : PyEq(x, e)))
    ELSE IF y.t = "str" /\ x.t = "str" THEN Ok(VBool(IsSubstring(x.v, y.v)))
    ELSE Raise("TypeError")

\* the bitwise operators on natural numbers
RECURSIVE BitOr(_, _)
BitOr(a, b) ==
    IF a = 0 THEN b ELSE IF b = 0 THEN a
    ELSE (IF a % 2 = 1 \/ b % 2 = 1 THEN 1 ELSE 0)
         + 2 * BitOr(a \div 2, b \div 2)

RECURSIVE BitAnd(_, _)
BitAnd(a, b) ==
    IF a = 0 \/ b = 0 THEN 0
    ELSE (IF a % 2 = 1 /\ b % 2 = 1 THEN 1 ELSE 0)
         + 2 * BitAnd(a \div 2, b \div 2)

\* left | right
PyOr(x, y) ==
    IF x.t = "set" /\ y.t = "set" THEN Ok(VSet(x.v \cup y.v))
    ELSE IF x.t = "bool" /\ y.t = "bool" THEN Ok(VBool(x.v \/ y.v))
    ELSE IF IsNum(x) /\ IsNum(y) THEN Ok(VInt(BitOr(NumOf(x), NumOf(y))))
    ELSE Raise("TypeError")

\* left & right
PyAnd(x, y) ==
    IF x.t = "set" /\ y.t = "set" THEN Ok(VSet(x.v \cap y.v))
    ELSE IF x.t = "bool" /\ y.t = "bool" THEN Ok(VBool(x.v /\ y.v))
    ELSE IF IsNum(x) /\ IsNum(y) THEN Ok(VInt(BitAnd(NumOf(x), NumOf(y))))
    ELSE Raise("TypeError")

Count(c, s) == Cardinality({i \in DOMAIN s : s[i] = c})

IsParen(c) == c \in {"(", ")"}

NotParen(c) == ~IsParen(c)

\* re.search(pattern, string, re.IGNORECASE), for patterns made of literal
\* characters and groups: re.error when the parentheses do not balance,
\* else a match object or None
re_search(pattern, string) ==
    IF Count("(", pattern) # Count(")", pattern) THEN Raise("re.error")
    ELSE IF IsSubstring(Lower(SelectSeq(pattern, NotParen)), Lower(string))
         THEN Ok(VMatch)
    ELSE Ok(VNone)


(***************************************************************************)
(* _FilterVisitor: evaluation of a parsed filter expression on an entry.   *)
(* An AST node is a record whose field node names its class.  ctx holds    *)
(* the visitor's entry, docname and cited_docnames.  A visit gives an      *)
(* outcome: Ok(value) or Raise(exception).                                 *)
(***************************************************************************)
\* _raise_invalid_node
raise_invalid_node == Raise("ValueError")

\* visit_Name: the value of an identifier
visit_Name(id, entry, docname, cited_docnames) ==
    CASE id = "type"     -> Ok(VStr(Lower(entry.type)))
      [] id = "key"      -> Ok(VStr(Lower(entry.key)))
      [] id = "cited"    -> Ok(VBool(cited_docnames # {}))
      [] id = "docname"  -> Ok(VStr(docname))
      [] id = "docnames" -> Ok(VSet({VStr(d) : d \in cited_docnames}))
      [] id \in {"author", "editor"} ->
             IF id \in DOMAIN entry.persons
             THEN Ok(VStr(Join(<<" ", "a", "n", "d", " ">>, entry.persons[id])))
             ELSE Ok(VStr(<<>>))
      [] OTHER -> IF id \in DOMAIN entry.fields
                  THEN Ok(VStr(entry.fields[id]))
                  ELSE Ok(VStr(<<>>))

\* not operand
NotOutcome(r) == IF r.exc # "none" THEN r ELSE Ok(VBool(~Truthy(r.v)))

\* visit_BinOp, given the outcomes of the visits of node.left and node.right
visit_BinOp(op, left, right) ==
    IF left.exc # "none" THEN left
    ELSE IF right.exc # "none" THEN right
    ELSE CASE op = "Mod" ->
                  IF left.v.t # "str" THEN Raise("ValueError")
                  ELSE IF right.v.t # "str" THEN Raise("ValueError")
                  ELSE re_search(right.v.v, left.v.v)
           [] op = "BitOr"  -> PyOr(left.v, right.v)
           [] op = "BitAnd" -> PyAnd(left.v, right.v)
           [] OTHER -> raise_invalid_node

\* visit_Compare, given the outcomes of the visits of node.left and
\* node.comparators[0]
visit_Compare(op, left, right) ==
    IF left.exc # "none" THEN left
    ELSE IF right.exc # "none" THEN right
    ELSE CASE op = "Eq"    -> Ok(VBool(PyEq(left.v, right.v)))
           [] op = "NotEq" -> Ok(VBool(~PyEq(left.v, right.v)))
           [] op = "Lt"    -> PyLess(left.v, right.v)
           [] op = "LtE"   -> PyLessEq(left.v, right.v)
           [] op = "Gt"    -> PyLess(right.v, left.v)
           [] op = "GtE"   -> PyLessEq(right.v, left.v)
           [] op = "In"    -> PyIn(left.v, right.v)
           [] op = "NotIn" -> NotOutcome(PyIn(left.v, right.v))
           [] OTHER -> raise_invalid_node

\* all(outcomes): the generator is consumed up to the first false outcome
AllOutcomes(first, rest) ==
    IF first.exc # "none" THEN first
    ELSE IF ~Truthy(first.v) THEN Ok(VBool(FALSE))
    ELSE rest

\* any(outcomes): the generator is consumed up to the first true outcome
AnyOutcomes(first, rest) ==
    IF first.exc # "none" THEN first
    ELSE IF Truthy(first.v) THEN Ok(VBool(TRUE))
    ELSE rest

\* frozenset(outcomes)
SetOutcomes(first, rest) ==
    IF first.exc # "none" THEN first
    ELSE IF rest.exc # "none" THEN rest
    ELSE Ok(VSet({first.v} \cup rest.v.v))

RECURSIVE visit(_, _)
RECURSIVE visit_BoolOp(_, _, _)
RECURSIVE visit_Set(_, _)

\* visit_BoolOp, over the values that are left
visit_BoolOp(op, values, ctx) ==
    IF values = <<>> THEN Ok(VBool(op = "And"))
    ELSE IF op = "And"
         THEN AllOutcomes(visit(values[1], ctx),
                          visit_BoolOp(op, Tail(values), ctx))
    ELSE AnyOutcomes(visit(values[1], ctx),
                     visit_BoolOp(op, Tail(values), ctx))

\* visit_Set, over the elements that are left
visit_Set(elts, ctx) ==
    IF elts = <<>> THEN Ok(VSet({}))
    ELSE SetOutcomes(visit(elts[1], ctx), visit_Set(Tail(elts), ctx))

\* NodeVisitor.visit: dispatch on the class of the node
visit(n, ctx) ==
    CASE n.node = "Module" ->
             IF Len(n.body) # 1 THEN Raise("ValueError")
             ELSE visit(n.body[1], ctx)
      [] n.node = "Expr" -> visit(n.value, ctx)
      [] n.node = "BoolOp" -> visit_BoolOp(n.op, n.values, ctx)
      [] n.node = "UnaryOp" ->
             IF n.op = "Not" THEN NotOutcome(visit(n.operand, ctx))
             ELSE raise_invalid_node
      [] n.node = "BinOp" ->
             visit_BinOp(n.op, visit(n.left, ctx), visit(n.right, ctx))
      [] n.node = "Compare" ->
             IF Len(n.ops) # 1 THEN Raise("ValueError")
             ELSE visit_Compare(n.ops[1], visit(n.left, ctx),
                                visit(n.comparators[1], ctx))
      [] n.node = "Name" ->
             visit_Name(n.id, ctx.entry, ctx.docname, ctx.cited_docnames)
      [] n.node = "Set" -> visit_Set(n.elts, ctx)
      [] n.node = "Constant" -> Ok(n.value)
      [] OTHER -> raise_invalid_node

(***************************************************************************)
(* The build environment and the bibliography data the domain reads.       *)
(***************************************************************************)
\* Python's None (never a text the model produces elsewhere)
None == <<>>

index  == <<"i","n","d","e","x">>
doc1   == <<"d","o","c","1">>
orphan == <<"o","r","p","h","a","n">>

\* env.config.master_doc
master_doc == index

\* env.collect_relations(): docname -> (parent, prevdoc, nextdoc), for the
\* documents of the toctree; the document orphan is in no toctree
Relations ==
    (index :> <<None, None, doc1>>) @@ (doc1 :> <<index, index, None>>)

\* get_docnames: the documents in order, following nextdoc from master_doc
RECURSIVE DocnamesFrom(_)
DocnamesFrom(docname) ==
    IF docname = None THEN <<>>
    ELSE <<docname>> \o DocnamesFrom(Relations[docname][3])

get_docnames == DocnamesFrom(master_doc)

\* the parsed entries (pybtex Entry: type, key, fields, persons, each person
\* already as the text str(person) gives)
EntryA == [type |-> <<"a","r","t","i","c","l","e">>, key |-> <<"a">>,
           fields |-> [year |-> <<"1","9","9","9">>],
           persons |-> [author |-> << <<"J","o","h","n"," ","S","m","i","t","h">> >>]]
EntryB == [type |-> <<"b","o","o","k">>, key |-> <<"b">>,
           fields |-> [year |-> <<"2","0","0","5">>],
           persons |-> [author |-> << <<"J","a","n","e"," ","D","o","e">>,
                                      <<"J","o","h","n"," ","S","m","i","t","h">> >>]]
EntryC == [type |-> <<"m","i","s","c">>, key |-> <<"c">>,
           fields |-> [title |-> <<"N","o","t","e","s">>],
           persons |-> [editor |-> << <<"A","n","n"," ","L","e","e">> >>]]
EntryD == [type |-> <<"a","r","t","i","c","l","e">>, key |-> <<"d">>,
           fields |-> [year |-> <<"2","0","1","0">>],
           persons |-> [author |-> << <<"A","n","n"," ","L","e","e">> >>]]
\* keys whose ids collide after make_id, and a key of the first file again
EntryA_ == [type |-> <<"b","o","o","k">>, key |-> <<"A","_">>,
            fields |-> [year |-> <<"2","0","0","1">>],
            persons |-> [author |-> << <<"J","a","n","e"," ","D","o","e">> >>]]
EntryA1 == [type |-> <<"m","i","s","c">>, key |-> <<"a","1">>,
            fields |-> [year |-> <<"2","0","0","2">>],
            persons |-> [author |-> << <<"A","n","n"," ","L","e","e">> >>]]
EntryA2 == [type |-> <<"b","o","o","k">>, key |-> <<"a">>,
            fields |-> [year |-> <<"2","0","0","3">>],
            persons |-> [author |-> << <<"J","a","n","e"," ","D","o","e">> >>]]

\* self.bibfiles[bibfile].data.entries.values(), in the order of the file
BibEntries(bibfile) ==
    CASE bibfile = "refs.bib"  -> <<EntryA, EntryB, EntryC, EntryD>>
      [] bibfile = "extra.bib" -> <<EntryA_, EntryA1, EntryA2>>

(***************************************************************************)
(* Parsed filter expressions (ast.parse of the :filter: option), by their  *)
(* source text.                                                            *)
(***************************************************************************)
Name(id) == [node |-> "Name", id |-> id]
Constant(x) == [node |-> "Constant", value |-> x]
Compare(left, op, right) ==
    [node |-> "Compare", left |-> left, ops |-> <<op>>,
     comparators |-> <<right>>]
BinOp(left, op, right) ==
    [node |-> "BinOp", left |-> left, op |-> op, right |-> right]
BoolOp(op, values) == [node |-> "BoolOp", op |-> op, values |-> values]
Module(e) == [node |-> "Module", body |-> <<[node |-> "Expr", value |-> e]>>]

Text2000 == <<"2","0","0","0">>
TextSmith == <<"S","m","i","t","h">>
TextArticle == <<"a","r","t","i","c","l","e">>

ParseFilter(text) ==
    CASE text = "cited" -> Module(Name("cited"))
      [] text = "True" -> Module(Constant(VBool(TRUE)))
      [] text = "docname in docnames" ->
             Module(Compare(Name("docname"), "In", Name("docnames")))
      [] text = "type == 'article' and author % 'Smith' and year % 2000" ->
             Module(BoolOp("And",
                 <<Compare(Name("type"), "Eq", Constant(VStr(TextArticle))),
                   BinOp(Name("author"), "Mod", Constant(VStr(TextSmith))),
                   BinOp(Name("year"), "Mod", Constant(VInt(2000)))>>))
      [] text = "year >= '2000'" ->
             Module(Compare(Name("year"), "GtE", Constant(VStr(Text2000))))
      [] text = "year % 2000" ->
             Module(BinOp(Name("year"), "Mod", Constant(VInt(2000))))
      [] text = "year < 2000" ->
             Module(Compare(Name("year"), "Lt", Constant(VInt(2000))))
      [] text = "key in 2000" ->
             Module(Compare(Name("key"), "In", Constant(VInt(2000))))
      [] text = "docnames | docname" ->
             Module(BinOp(Name("docnames"), "BitOr", Name("docname")))
      [] text = "author % '('" ->
             Module(BinOp(Name("author"), "Mod", Constant(VStr(<<"(">>))))

(***************************************************************************)
(* Ordered dictionaries (Python dict) as sequences of <<key, value>> pairs *)
(* with pairwise distinct keys, in insertion order.                        *)
(***************************************************************************)
HasKey(d, k) == \E i \in DOMAIN d : d[i][1] = k

KeyIndex(d, k) == CHOOSE i \in DOMAIN d : d[i][1] = k

\* a variant of DictSet that adds a pair also for a key that is present
DictAppend(d, k, x) == Append(d, <<k, x>>)

\* d[k] = x: a present key keeps its place, a new key goes last
DictSet(d, k, x) ==
    IF HasKey(d, k) THEN [d EXCEPT ![KeyIndex(d, k)] = <<k, x>>]
    ELSE Append(d, <<k, x>>)

\* d without the pair at place i
DictDelAt(d, i) == SubSeq(d, 1, i - 1) \o SubSeq(d, i + 1, Len(d))

\* dict(pairs)
RECURSIVE DictOf(_, _)
DictOf(pairs, d) ==
    IF pairs = <<>> THEN d
    ELSE DictOf(Tail(pairs), DictSet(d, pairs[1][1], pairs[1][2]))

\* d.values()
Values(d) == [i \in DOMAIN d |-> d[i][2]]

(***************************************************************************)
(* The queries of BibtexDomain that check_consistency is built from.  The  *)
(* registry is passed in: bibs is self.bibliographies as a sequence of     *)
(* Bibliography records in dictionary order, each with its id; refs is     *)
(* self.citation_refs.                                                     *)
(***************************************************************************)
\* the documents whose citation references hold key
CitedDocnames(key, refs) ==
    {refs[i].docname : i \in {j \in DOMAIN refs : key \in Range(refs[j].keys)}}

\* the (key, entry) pairs of the entries of one bib file
KeyedEntries(es, keyprefix) ==
    [i \in DOMAIN es |-> <<keyprefix \o es[i].key, es[i]>>]

\* get_bibliography_entries: the (key, entry) pairs of the bib files, in
\* order of appearance
RECURSIVE get_bibliography_entries(_, _)
get_bibliography_entries(bibfiles, keyprefix) ==
    IF bibfiles = <<>> THEN <<>>
    ELSE KeyedEntries(BibEntries(bibfiles[1]), keyprefix)
         \o get_bibliography_entries(Tail(bibfiles), keyprefix)

FilterWarning(b) ==
    [msg |-> "syntax error in :filter: expression",
     location |-> <<b.docname, b.line>>]

\* which exceptions of the visitor get_filtered_bibliography_entries catches
Caught(e) == e = "ValueError"

\* the try statement of get_filtered_bibliography_entries, given the
\* outcome r of the visit: the exception that escapes, whether a warning is
\* logged, and success
Selection(r, cited_docnames) ==
    [exc |-> IF r.exc # "none" /\ ~Caught(r.exc) THEN r.exc ELSE "none",
     warned |-> r.exc # "none",
     success |-> IF r.exc = "none" THEN Truthy(r.v) ELSE cited_docnames # {}]

\* the body of the loop of get_filtered_bibliography_entries for one entry
EntrySelection(entry, b, refs) ==
    Selection(visit(ParseFilter(b.filter_),
                    [entry |-> entry, docname |-> b.docname,
                     cited_docnames |->
                         CitedDocnames(b.keyprefix \o entry.key, refs)]),
              CitedDocnames(b.keyprefix \o entry.key, refs))

\* the result for one entry put before the result for the entries after it
FilterStep(entry, sel, rest, b) ==
    IF sel.exc # "none"
    THEN [exc |-> sel.exc, log |-> <<>>, pairs |-> <<>>]
    ELSE [exc |-> rest.exc,
          log |-> (IF sel.warned THEN <<FilterWarning(b)>> ELSE <<>>)
                  \o rest.log,
          pairs |-> (IF sel.success
                     THEN << <<b.keyprefix \o entry.key, entry>> >>
                     ELSE <<>>) \o rest.pairs]

\* get_filtered_bibliography_entries, over the candidate pairs that are
\* left: the pairs the filter selects, the warnings logged, and the
\* exception that ended the iteration, if any
RECURSIVE FilterEntries(_, _, _)
FilterEntries(pairs, b, refs) ==
    IF pairs = <<>> THEN [exc |-> "none", log |-> <<>>, pairs |-> <<>>]
    ELSE FilterStep(pairs[1][2], EntrySelection(pairs[1][2], b, refs),
                    FilterEntries(Tail(pairs), b, refs), b)

get_filtered_bibliography_entries(b, refs) ==
    FilterEntries(get_bibliography_entries(b.bibfiles, b.keyprefix), b, refs)

\* the citation references of one document, in the order of the list
RefsOf(refs, docname) ==
    LET InDoc(ref) == ref.docname = docname
    IN  SelectSeq(refs, InDoc)

\* sorted(self.citation_refs, key=lambda c: docnames.index(c.docname)): a
\* stable sort by the place of the document in docnames
RECURSIVE SortedRefs(_, _)
SortedRefs(refs, docnames) ==
    IF docnames = <<>> THEN <<>>
    ELSE RefsOf(refs, docnames[1]) \o SortedRefs(refs, Tail(docnames))

RECURSIVE KeysOf(_)
KeysOf(refs) ==
    IF refs = <<>> THEN <<>> ELSE refs[1].keys \o KeysOf(Tail(refs))

\* get_all_cited_keys: docnames.index raises ValueError for a citation
\* reference of a document that is not in docnames
get_all_cited_keys(refs, docnames) ==
    IF \E i \in DOMAIN refs : refs[i].docname \notin Range(docnames)
    THEN [exc |-> "ValueError", keys |-> <<>>]
    ELSE [exc |-> "none", keys |-> KeysOf(SortedRefs(refs, docnames))]

\* a variant of SortByCitation that leaves the entries in the order of the
\* dictionary
UnsortedEntries(keys, entries) == entries

\* the loops of get_sorted_bibliography_entries: the entries of the cited
\* keys in citation order, each popped when first met, then the entries
\* that are left, in the order of the dictionary
RECURSIVE SortByCitation(_, _)
SortByCitation(keys, entries) ==
    IF keys = <<>> THEN entries
    ELSE IF HasKey(entries, keys[1])
         THEN <<entries[KeyIndex(entries, keys[1])]>>
              \o SortByCitation(Tail(keys),
                                DictDelAt(entries, KeyIndex(entries, keys[1])))
    ELSE SortByCitation(Tail(keys), entries)

\* get_sorted_bibliography_entries, given the outcomes of
\* get_filtered_bibliography_entries and of get_all_cited_keys: the
\* dictionary of the filtered entries is built before the cited keys are
\* asked for
SortedEntries(filtered, cited) ==
    IF filtered.exc # "none"
    THEN [exc |-> filtered.exc, log |-> filtered.log, pairs |-> <<>>]
    ELSE IF cited.exc # "none"
    THEN [exc |-> cited.exc, log |-> filtered.log, pairs |-> <<>>]
    ELSE [exc |-> "none", log |-> filtered.log,
          pairs |-> SortByCitation(cited.keys, DictOf(filtered.pairs, <<>>))]

get_sorted_bibliography_entries(b, refs, docnames) ==
    SortedEntries(get_filtered_bibliography_entries(b, refs),
                  get_all_cited_keys(refs, docnames))

\* style.sort(entries) of the pybtex formatting style
StyleSort(style, entries) == entries

\* style.format_labels(sorted_entries) of the pybtex formatting style
StyleFormatLabels(style, entries) == [i \in DOMAIN entries |-> Str(i)]

\* zip(labels, sorted_entries)
Zip(labels, entries) == [i \in DOMAIN entries |-> <<labels[i], entries[i]>>]

\* get_labelled_bibliography_entries, given the outcome of
\* get_sorted_bibliography_entries
LabelledEntries(style, sorted) ==
    [exc |-> sorted.exc, log |-> sorted.log,
     pairs |-> Zip(StyleFormatLabels(style,
                       StyleSort(style, Values(DictOf(sorted.pairs, <<>>)))),
                   StyleSort(style, Values(DictOf(sorted.pairs, <<>>))))]

get_labelled_bibliography_entries(b, refs, docnames) ==
    LabelledEntries(b.style, get_sorted_bibliography_entries(b, refs, docnames))

(***************************************************************************)
(* check_consistency.  The pass is a fold over the bibliographies and, in  *)
(* each, over its labelled entries; acc holds the citations appended so    *)
(* far, the warnings logged so far, and used_keys, used_labels (a          *)
(* dictionary label -> set of keys) and used_ids.                          *)
(***************************************************************************)
DuplicateCitationWarning(key, b) ==
    [msg |-> "duplicate citation for key", key |-> key,
     location |-> <<b.docname, b.line>>]

DuplicateLabelWarning(label, keys) ==
    [msg |-> "duplicate label for keys", label |-> label, keys |-> keys]

\* the while loop: the least num, from num on, with base_id + str(num) not
\* in used_ids
RECURSIVE FirstFreeNum(_, _, _)
FirstFreeNum(base_id, used_ids, num) ==
    IF (base_id \o Str(num)) \in used_ids
    THEN FirstFreeNum(base_id, used_ids, num + 1) ELSE num

\* the id of a citation that is the first of its key, given its base_id
NewCitationId(base_id, used_ids) ==
    IF base_id \notin used_ids THEN base_id
    ELSE base_id \o Str(FirstFreeNum(base_id, used_ids, 1))

\* whether the key counts as used by an earlier Citation of the pass
KeyUsed(key, used_keys) == key \in used_keys

\* a variant of CitationId that does not look at the kind of the list
CitationIdAnyList(list_, key, used_keys, used_ids) ==
    IF KeyUsed(key, used_keys) THEN None
    ELSE NewCitationId(make_id(format_id(key)), used_ids)

\* the if statement that gives the Citation its id
CitationId(list_, key, used_keys, used_ids) ==
    IF list_ # "citation" THEN None
    ELSE IF KeyUsed(key, used_keys) THEN None
    ELSE NewCitationId(make_id(format_id(key)), used_ids)

\* a variant of AddLabel that records only the first key of a label
AddLabelOnce(used_labels, label, key) ==
    IF HasKey(used_labels, label) THEN used_labels
    ELSE Append(used_labels, <<label, {key}>>)

\* used_labels.setdefault(label, set()).add(key)
AddLabel(used_labels, label, key) ==
    IF HasKey(used_labels, label)
    THEN [used_labels EXCEPT ![KeyIndex(used_labels, label)][2] = @ \cup {key}]
    ELSE Append(used_labels, <<label, {key}>>)

\* the body of the inner loop for one (entry_label, entry), with key and
\* label computed
AddCitation(key, label, entry_label, entry, b, acc) ==
    [citations |-> Append(acc.citations,
         [citation_id |-> CitationId(b.list_, key, acc.used_keys, acc.used_ids),
          bibliography_id |-> b.id, key |-> key, label |-> label,
          entry_key |-> entry.key, entry_label |-> entry_label]),
     log |-> IF b.list_ = "citation" /\ KeyUsed(key, acc.used_keys)
             THEN Append(acc.log, DuplicateCitationWarning(key, b))
             ELSE acc.log,
     used_keys |-> acc.used_keys \cup {key},
     used_labels |-> AddLabel(acc.used_labels, label, key),
     used_ids |-> acc.used_ids
         \cup {CitationId(b.list_, key, acc.used_keys, acc.used_ids)}]

RECURSIVE AddCitations(_, _, _)
AddCitations(labelled, b, acc) ==
    IF labelled = <<>> THEN acc
    ELSE AddCitations(Tail(labelled), b,
             AddCitation(b.keyprefix \o labelled[1][2].key,
                         b.labelprefix \o labelled[1][1],
                         labelled[1][1], labelled[1][2], b, acc))

\* the final loop over used_labels.items()
RECURSIVE LabelWarnings(_)
LabelWarnings(used_labels) ==
    IF used_labels = <<>> THEN <<>>
    ELSE (IF Cardinality(used_labels[1][2]) > 1
          THEN <<DuplicateLabelWarning(used_labels[1][1], used_labels[1][2])>>
          ELSE <<>>) \o LabelWarnings(Tail(used_labels))

RECURSIVE ResolveBibs(_, _, _, _)
RECURSIVE ResolveNext(_, _, _, _, _)

\* the outer loop over self.bibliographies.items(), over the bibliographies
\* that are left
ResolveBibs(bibs, refs, docnames, acc) ==
    IF bibs = <<>>
    THEN [exc |-> "none", citations |-> acc.citations,
          log |-> acc.log \o LabelWarnings(acc.used_labels)]
    ELSE ResolveNext(
             get_labelled_bibliography_entries(bibs[1], refs, docnames),
             bibs, refs, docnames, acc)

\* the body of the outer loop, given the labelled entries of the first
\* bibliography that is left: an exception raised while they are fetched
\* ends the pass there
ResolveNext(labelled, bibs, refs, docnames, acc) ==
    IF labelled.exc # "none"
    THEN [exc |-> labelled.exc, citations |-> acc.citations,
          log |-> acc.log \o labelled.log]
    ELSE ResolveBibs(Tail(bibs), refs, docnames,
             AddCitations(labelled.pairs, bibs[1],
                          [acc EXCEPT !.log = @ \o labelled.log]))

\* one run of check_consistency over the registry: the Citations it
\* appends, the warnings it logs and the exception it raises, if any
Resolve(bibs, refs) ==
    ResolveBibs(bibs, refs, get_docnames,
                [citations |-> <<>>, log |-> <<>>, used_keys |-> {},
                 used_labels |-> <<>>, used_ids |-> {}])

(***************************************************************************)
(* The registry and its operations.                                        *)
(***************************************************************************)
VARIABLES
    corpus,          \* the project that is built: its documents' contents
    bibliographies,  \* self.bibliographies, in dictionary order
    citation_refs,   \* self.citation_refs
    citations,       \* self.citations
    log,             \* the warnings the last operation logged
    exc,             \* the exception the last operation raised, or "none"
    last,            \* the last operation and its argument
    build,           \* where the run stands in the build lifecycle
    node             \* the element the last resolve_xref returned, or None

vars == <<corpus, bibliographies, citation_refs, citations, log, exc, last,
          build, node>>

KeyA  == <<"a">>
KeyB  == <<"b">>
KeyC  == <<"c">>
KeyD  == <<"d">>
KeyA_ == <<"A", "_">>
KeyA1 == <<"a", "1">>
PrefixX == <<"x", "-">>

\* a bibliography directive and a cite role in the text of a document
Bib(bibfiles, list_, labelprefix, keyprefix, filter_) ==
    [kind |-> "bibliography", bibfiles |-> bibfiles, list_ |-> list_,
     labelprefix |-> labelprefix, keyprefix |-> keyprefix,
     filter_ |-> filter_]
Cite(keys) == [kind |-> "cite", keys |-> keys]

\* The projects of the model: each gives the directives and roles of its
\* documents, in the order of the text, and whether it is built with
\* parallel reading (so that registries are merged).
Corpora == {
    [name |-> "order", parallel |-> FALSE, documents |->
        (index :> <<Cite(<<KeyB, KeyA>>),
                    Bib(<<"refs.bib">>, "citation", <<>>, <<>>, "True")>>)
     @@ (doc1 :> <<Cite(<<KeyA, KeyC>>)>>)],
    [name |-> "ids", parallel |-> FALSE, documents |->
        (index :> <<Bib(<<"extra.bib">>, "bullet", <<>>, <<>>, "True"),
                    Bib(<<"extra.bib">>, "citation", <<>>, <<>>, "True")>>)
     @@ (doc1 :> <<Cite(<<KeyA, KeyA1>>),
                   Bib(<<"extra.bib">>, "citation", <<>>, <<>>, "True")>>)],
    [name |-> "docs", parallel |-> FALSE, documents |->
        (index :> <<Cite(<<KeyA, KeyB>>),
                    Bib(<<"refs.bib">>, "citation", <<>>, <<>>,
                        "docname in docnames")>>)
     @@ (doc1 :> <<Cite(<<KeyA, KeyC>>),
                   Bib(<<"refs.bib">>, "citation", <<>>, <<>>,
                       "docname in docnames")>>)
     @@ (orphan :> <<Cite(<<KeyC>>)>>)],
    [name |-> "prefixes", parallel |-> FALSE, documents |->
        (index :> <<Cite(<<PrefixX \o KeyA>>),
                    Bib(<<"refs.bib", "extra.bib">>, "citation", <<"L">>,
                        PrefixX, "cited")>>)
     @@ (doc1 :> <<Cite(<<KeyA, KeyB>>),
                   Bib(<<"refs.bib", "extra.bib">>, "citation", <<>>, <<>>,
                       "cited")>>)],
    [name |-> "filters", parallel |-> FALSE, documents |->
        (index :> <<Cite(<<KeyA, KeyD>>),
                    Bib(<<"refs.bib">>, "citation", <<>>, <<>>,
                        "year % 2000")>>)
     @@ (doc1 :> <<Bib(<<"refs.bib">>, "bullet", <<>>, <<>>,
                       "type == 'article' and author % 'Smith' and year % 2000"),
                   Bib(<<"refs.bib">>, "citation", <<>>, <<>>,
                       "year < 2000")>>)],
    [name |-> "operators", parallel |-> FALSE, documents |->
        (index :> <<Cite(<<KeyC>>),
                    Bib(<<"refs.bib">>, "citation", <<>>, <<>>,
                        "year >= '2000'")>>)
     @@ (doc1 :> <<Bib(<<"refs.bib">>, "citation", <<>>, <<>>,
                       "key in 2000")>>)
     @@ (orphan :> <<Bib(<<"refs.bib">>, "citation", <<>>, <<>>,
                         "docnames | docname")>>)],
    [name |-> "parallel", parallel |-> TRUE, documents |->
        (index :> <<Cite(<<KeyA>>),
                    Bib(<<"refs.bib">>, "citation", <<>>, <<>>, "True")>>)
     @@ (doc1 :> <<Cite(<<KeyB>>)>>)] }

DocsOf(c) == DOMAIN c.documents

\* the number of elements of seq that belong to docname
CountDoc(seq, docname) ==
    Cardinality({i \in DOMAIN seq : seq[i].docname = docname})

\* the Bibliography the directive item of docname creates in a registry
\* that holds bibs: its id is made of the document name and a serial number
NewBibliography(bibs, docname, line, item) ==
    [id |-> <<docname, CountDoc(bibs, docname)>>, docname |-> docname,
     line |-> line, bibfiles |-> item.bibfiles, style |-> "unsrt",
     list_ |-> item.list_, labelprefix |-> item.labelprefix,
     keyprefix |-> item.keyprefix, filter_ |-> item.filter_]

\* the CitationRef the role item of docname creates in a registry that
\* holds refs
NewCitationRef(refs, docname, line, item) ==
    [citation_ref_id |-> <<docname, CountDoc(refs, docname)>>,
     docname |-> docname, line |-> line, keys |-> item.keys]

HasId(bibs, id) == \E i \in DOMAIN bibs : bibs[i].id = id

BibOf(bibs, id) == bibs[CHOOSE i \in DOMAIN bibs : bibs[i].id = id]

\* self.bibliographies[id_] = bibliography
SetBibliography(bibs, b) ==
    IF HasId(bibs, b.id)
    THEN [i \in DOMAIN bibs |-> IF bibs[i].id = b.id THEN b ELSE bibs[i]]
    ELSE Append(bibs, b)

\* how many directives and roles of docname the registry holds: the place
\* in the text up to which the document has been read
Progress(bibs, refs, docname) == CountDoc(bibs, docname) + CountDoc(refs, docname)

\* the next stage of the build lifecycle: "none" before the first pass,
\* "full" after it, "invalidated" once clear_doc has run after a pass,
\* "incremental" after the pass that follows; "broken" when an operation
\* raised or ran out of this order; resolve_xref leaves the stage as it is
NextBuild(op, raised) ==
    IF raised \/ build = "broken" THEN "broken"
    ELSE CASE op = "resolve_xref" -> build
           [] op = "check_consistency" ->
                  (CASE build = "none" -> "full"
                     [] build = "invalidated" -> "incremental"
                     [] OTHER -> "broken")
           [] op = "clear_doc" ->
                  (IF build = "none" THEN "none" ELSE "invalidated")
           [] OTHER ->
                  (IF build \in {"none", "invalidated"} THEN build
                   ELSE "broken")

(***************************************************************************)
(* resolve_xref.  The element it returns is the sequence of its children;  *)
(* a child is a Text, an inline (a key that is not found) or a reference   *)
(* (reference, or citation_reference for the latex builder) with the       *)
(* document and id it points to.                                           *)
(***************************************************************************)
\* str.split(sep), the part read so far being cur
RECURSIVE SplitFrom(_, _, _)
SplitFrom(s, sep, cur) ==
    IF s = <<>> THEN <<cur>>
    ELSE IF s[1] = sep THEN <<cur>> \o SplitFrom(Tail(s), sep, <<>>)
    ELSE SplitFrom(Tail(s), sep, Append(cur, s[1]))

Split(s, sep) == SplitFrom(s, sep, <<>>)

\* str.strip(), of the spaces at the front
RECURSIVE LStrip(_)
LStrip(s) == IF s # <<>> /\ s[1] = " " THEN LStrip(Tail(s)) ELSE s

\* str.strip(), of the spaces at the end
RECURSIVE RStrip(_)
RStrip(s) ==
    IF s # <<>> /\ s[Len(s)] = " " THEN RStrip(SubSeq(s, 1, Len(s) - 1))
    ELSE s

Strip(s) == RStrip(LStrip(s))

StripAll(parts) == [i \in DOMAIN parts |-> Strip(parts[i])]

\* keys = [key.strip() for key in target.split(',')]
TargetKeys(target) == StripAll(Split(target, ","))

\* docutils.nodes.Text(text)
TextNode(text) ==
    [kind |-> "Text", text |-> text, docname |-> None, refid |-> None]

\* docutils.nodes.inline('', text)
InlineNode(text) ==
    [kind |-> "inline", text |-> text, docname |-> None, refid |-> None]

\* the reference to a citation: a citation_reference with the id as
\* refname for the latex builder, and what make_refnode makes for the
\* document of the bibliography and the id for the other builders; its
\* content is inline('', citation.label)
RefNode(builder, citation, bibs) ==
    IF builder = "latex"
    THEN [kind |-> "citation_reference", text |-> citation.label,
          docname |-> None, refid |-> citation.citation_id]
    ELSE [kind |-> "reference", text |-> citation.label,
          docname |-> BibOf(bibs, citation.bibliography_id).docname,
          refid |-> citation.citation_id]

KeyNotFoundWarning(key) == [msg |-> "could not find bibtex key", key |-> key]

\* the citations whose key is asked for; the bibliography of each of them is
\* looked up
AskedCitations(cits, keys) ==
    LET Asked(cit) == cit.key \in Range(keys)
    IN  SelectSeq(cits, Asked)

\* a variant of LinkablePairs that takes the citations of every bibliography
AnyListPairs(asked, bibs) == [i \in DOMAIN asked |-> <<asked[i].key, asked[i]>>]

\* ... and, of these, those of a bibliography with list_ = 'citation', as
\* (key, citation) pairs
LinkablePairs(asked, bibs) ==
    LET Linkable(cit) == BibOf(bibs, cit.bibliography_id).list_ = "citation"
        linkable == SelectSeq(asked, Linkable)
    IN  [i \in DOMAIN linkable |-> <<linkable[i].key, linkable[i]>>]

\* the dictionary citations of resolve_xref: a later citation of a key
\* replaces an earlier one
\* a variant of XrefCitations that finds the Citations only in the first
\* invocation after a pass
XrefCitationsOnce(cits, bibs, keys) ==
    IF last.op = "resolve_xref" THEN <<>>
    ELSE DictOf(LinkablePairs(AskedCitations(cits, keys), bibs), <<>>)

XrefCitations(cits, bibs, keys) ==
    DictOf(LinkablePairs(AskedCitations(cits, keys), bibs), <<>>)

\* a variant of XrefKey that logs nothing for a key that is not found
XrefKeyQuiet(found, keys, i, builder, bibs) ==
    IF ~HasKey(found, keys[i])
    THEN [children |-> <<InlineNode(keys[i])>>, log |-> <<>>]
    ELSE [children |->
              <<RefNode(builder, found[KeyIndex(found, keys[i])][2], bibs)>>
              \o (IF i # Len(keys) THEN <<TextNode(<<",">>)>> ELSE <<>>),
          log |-> <<>>]

\* the body of the loop for the key at place i: the children added and the
\* warnings logged
XrefKey(found, keys, i, builder, bibs) ==
    IF ~HasKey(found, keys[i])
    THEN [children |-> <<InlineNode(keys[i])>>,
          log |-> <<KeyNotFoundWarning(keys[i])>>]
    ELSE [children |->
              <<RefNode(builder, found[KeyIndex(found, keys[i])][2], bibs)>>
              \o (IF i # Len(keys) THEN <<TextNode(<<",">>)>> ELSE <<>>),
          log |-> <<>>]

\* the loop over enumerate(keys), from place i on
RECURSIVE XrefLoop(_, _, _, _, _)
XrefLoop(found, keys, i, builder, bibs) ==
    IF i > Len(keys) THEN [children |-> <<>>, log |-> <<>>]
    ELSE [children |-> XrefKey(found, keys, i, builder, bibs).children
                       \o XrefLoop(found, keys, i + 1, builder, bibs).children,
          log |-> XrefKey(found, keys, i, builder, bibs).log
                  \o XrefLoop(found, keys, i + 1, builder, bibs).log]

\* the element resolve_xref returns, given what its loop gives
XrefElement(looped) ==
    [exc |-> "none",
     node |-> <<TextNode(<<"[">>)>> \o looped.children
              \o <<TextNode(<<"]">>)>>,
     log |-> looped.log]

\* resolve_xref(env, fromdocname, builder, typ, target, node, contnode) on
\* a registry with the citations cits and the bibliographies bibs:
\* self.bibliographies[cit.bibliography_id] raises KeyError when the
\* bibliography of a citation that is asked for is not in the registry
resolve_xref(cits, bibs, builder, target) ==
    IF \E cit \in Range(AskedCitations(cits, TargetKeys(target))) :
           ~HasId(bibs, cit.bibliography_id)
    THEN [exc |-> "KeyError", node |-> None, log |-> <<>>]
    ELSE XrefElement(XrefLoop(XrefCitations(cits, bibs, TargetKeys(target)),
                              TargetKeys(target), 1, builder, bibs))

Init ==
    /\ corpus \in Corpora
    /\ bibliographies = <<>>
    /\ citation_refs = <<>>
    /\ citations = <<>>
    /\ log = <<>>
    /\ exc = "none"
    /\ last = [op |-> "init", arg |-> None]
    /\ build = "none"
    /\ node = None

\* the next directive or role of docname is a bibliography directive, and
\* it is run
RegisterListing(docname) ==
    LET text == corpus.documents[docname]
        line == Progress(bibliographies, citation_refs, docname) + 1
    IN  /\ line <= Len(text)
        /\ text[line].kind = "bibliography"
        /\ Len(bibliographies) < MaxBibs
        /\ bibliographies' = SetBibliography(bibliographies,
               NewBibliography(bibliographies, docname, line, text[line]))
        /\ log' = <<>>
        /\ exc' = "none"
        /\ last' = [op |-> "register_listing", arg |-> docname]
        /\ build' = NextBuild("register_listing", FALSE)
        /\ node' = None
        /\ UNCHANGED <<corpus, citation_refs, citations>>

\* the next directive or role of docname is a cite role, and it is run
RegisterCitationRef(docname) ==
    LET text == corpus.documents[docname]
        line == Progress(bibliographies, citation_refs, docname) + 1
    IN  /\ line <= Len(text)
        /\ text[line].kind = "cite"
        /\ Len(citation_refs) < MaxRefs
        /\ citation_refs' = Append(citation_refs,
               NewCitationRef(citation_refs, docname, line, text[line]))
        /\ log' = <<>>
        /\ exc' = "none"
        /\ last' = [op |-> "register_citation_ref", arg |-> docname]
        /\ build' = NextBuild("register_citation_ref", FALSE)
        /\ node' = None
        /\ UNCHANGED <<corpus, bibliographies, citations>>

\* a variant of ClearedCitations that keeps every citation
KeptCitations(cits, bibs, docname) == cits

\* clear_doc, first statement: the citations whose bibliography is not of
\* docname
ClearedCitations(cits, bibs, docname) ==
    LET Keep(citation) == BibOf(bibs, citation.bibliography_id).docname # docname
    IN  SelectSeq(cits, Keep)

\* clear_doc, second statement
ClearedRefs(refs, docname) ==
    LET Keep(ref) == ref.docname # docname
    IN  SelectSeq(refs, Keep)

\* a variant of ClearedBibliographies that deletes every bibliography
ClearedAllBibliographies(bibs, docname) == <<>>

\* clear_doc, the loop that deletes the bibliographies of docname
ClearedBibliographies(bibs, docname) ==
    LET Keep(b) == b.docname # docname
    IN  SelectSeq(bibs, Keep)

\* clear_doc(docname); self.bibliographies[citation.bibliography_id] raises
\* KeyError, before anything is assigned, when a citation's bibliography is
\* not in the registry
ClearDoc(docname) ==
    /\ IF \E i \in DOMAIN citations :
              ~HasId(bibliographies, citations[i].bibliography_id)
       THEN /\ exc' = "KeyError"
            /\ UNCHANGED <<bibliographies, citation_refs, citations>>
       ELSE /\ exc' = "none"
            /\ citations' = ClearedCitations(citations, bibliographies, docname)
            /\ citation_refs' = ClearedRefs(citation_refs, docname)
            /\ bibliographies' = ClearedBibliographies(bibliographies, docname)
    /\ log' = <<>>
    /\ last' = [op |-> "clear_doc", arg |-> docname]
    /\ build' = NextBuild("clear_doc", exc' # "none")
    /\ node' = None
    /\ UNCHANGED corpus

\* merge_domaindata, first loop
RECURSIVE MergedBibliographies(_, _, _)
MergedBibliographies(bibs, docnames, otherbibs) ==
    IF otherbibs = <<>> THEN bibs
    ELSE MergedBibliographies(
             IF otherbibs[1].docname \in docnames
             THEN SetBibliography(bibs, otherbibs[1]) ELSE bibs,
             docnames, Tail(otherbibs))

\* a variant of MergedRefs that appends every citation reference of the
\* other registry
MergedAllRefs(refs, docnames, otherrefs) == refs \o otherrefs

\* merge_domaindata, second loop
MergedRefs(refs, docnames, otherrefs) ==
    LET Allowed(ref) == ref.docname \in docnames
    IN  refs \o SelectSeq(otherrefs, Allowed)

\* a variant of MergeAssertionFails with the first assertion only
OwnCitationsAsserted(cits, othercits) == cits # <<>>

\* merge_domaindata, the two assertions at its end
MergeAssertionFails(cits, othercits) == cits # <<>> \/ othercits # <<>>

\* merge_domaindata(docnames, otherdata); the assertions come after the
\* loops, so the registry is updated also when one of them fails
MergeDomaindata(docnames, otherdata) ==
    /\ bibliographies' = MergedBibliographies(bibliographies, docnames,
                                              otherdata.bibliographies)
    /\ citation_refs' = MergedRefs(citation_refs, docnames,
                                   otherdata.citation_refs)
    /\ Len(bibliographies') <= MaxBibs
    /\ Len(citation_refs') <= MaxRefs
    /\ exc' = IF MergeAssertionFails(citations, otherdata.citations)
              THEN "AssertionError" ELSE "none"
    /\ log' = <<>>
    /\ last' = [op |-> "merge_domaindata",
                arg |-> [docnames |-> docnames, otherdata |-> otherdata]]
    /\ build' = NextBuild("merge_domaindata", exc' # "none")
    /\ node' = None
    /\ UNCHANGED <<corpus, citations>>

\* check_consistency(): the Citations of the pass are appended to
\* self.citations
CheckConsistency ==
    LET r == Resolve(bibliographies, citation_refs)
    IN  /\ Len(citations) + Len(r.citations) <= MaxCitations
        /\ citations' = citations \o r.citations
        /\ log' = r.log
        /\ exc' = r.exc
        /\ last' = [op |-> "check_consistency", arg |-> Len(citations)]
        /\ build' = NextBuild("check_consistency", r.exc # "none")
        /\ node' = None
        /\ UNCHANGED <<corpus, bibliographies, citation_refs>>

\* the builders a project is built with
Builders == {"html", "latex"}

\* the targets of the cross-references that are resolved
Targets ==
    {<<"a">>, <<"z", "z", ",", "a">>,
     <<"a", ",", " ", "z", "z", " ", ",", "b">>}

\* resolve_xref is called when the documents are written, after a pass of
\* check_consistency that returned
ResolveXref(builder, target) ==
    /\ last.op \in {"check_consistency", "resolve_xref"}
    /\ exc = "none"
    /\ \E r \in {resolve_xref(citations, bibliographies, builder, target)} :
           node' = r.node /\ log' = r.log /\ exc' = r.exc
    /\ last' = [op |-> "resolve_xref",
                arg |-> [builder |-> builder, target |-> target,
                            after |-> last.op]]
    /\ build' = NextBuild("resolve_xref", exc' # "none")
    /\ UNCHANGED <<corpus, bibliographies, citation_refs, citations>>

\* a registry after the rest of the text of docname, from item line on, is
\* read into it
RECURSIVE ReadFrom(_, _, _, _)
ReadFrom(reg, text, docname, line) ==
    IF line > Len(text) THEN reg
    ELSE ReadFrom(
             IF text[line].kind = "bibliography"
             THEN [reg EXCEPT !.bibliographies = SetBibliography(@,
                       NewBibliography(@, docname, line, text[line]))]
             ELSE [reg EXCEPT !.citation_refs = Append(@,
                       NewCitationRef(@, docname, line, text[line]))],
             text, docname, line + 1)

\* the registries another process can hand to merge_domaindata: it has
\* read up to n documents into an empty registry
RECURSIVE WorkerRegistries(_, _)
WorkerRegistries(c, n) ==
    IF n = 0
    THEN {[bibliographies |-> <<>>, citation_refs |-> <<>>,
           citations |-> <<>>]}
    ELSE LET fewer == WorkerRegistries(c, n - 1)
         IN  fewer \cup
             UNION {{ReadFrom(reg, c.documents[d], d, 1) :
                         d \in {x \in DocsOf(c) :
                                    Progress(reg.bibliographies,
                                             reg.citation_refs, x) = 0}} :
                    reg \in fewer}

\* ... with or without the Citations of a pass over them
ForeignRegistries(c) ==
    LET workers == WorkerRegistries(c, MaxForeign)
    IN  workers \cup
        {[reg EXCEPT !.citations =
              Resolve(reg.bibliographies, reg.citation_refs).citations] :
             reg \in workers}

\* the registries of the workers, project by project
OtherData == [c \in Corpora |-> ForeignRegistries(c)]

Next ==
    \/ \E d \in DocsOf(corpus) : RegisterListing(d)
    \/ \E d \in DocsOf(corpus) : RegisterCitationRef(d)
    \/ \E d \in DocsOf(corpus) : ClearDoc(d)
    \/ /\ corpus.parallel
       /\ \E ds \in (SUBSET DocsOf(corpus)) \ {{}},
             otherdata \in OtherData[corpus] :
              MergeDomaindata(ds, otherdata)
    \/ CheckConsistency
    \/ \E builder \in Builders, target \in Targets :
           ResolveXref(builder, target)

Spec == Init /\ [][Next]_vars

(***************************************************************************)
(* Properties.  The state tells what the last operation was (last), what   *)
(* it logged (log) and what it raised (exc); after check_consistency,      *)
(* last.arg is the length self.citations had before the pass.              *)
(***************************************************************************)
\* the places in self.citations of the Citations the last pass appended
PassIndices == (last.arg + 1) .. Len(citations)

\* the pass has just run and returned to its caller
PassReturned == last.op = "check_consistency" /\ exc = "none"

\* the Citation at place i belongs to a listing with list_ = "citation"
InCitationList(i) ==
    BibOf(bibliographies, citations[i].bibliography_id).list_ = "citation"

\* how many elements of the sequence s are the value x
Occurrences(s, x) == Cardinality({i \in DOMAIN s : s[i] = x})

\* C1: a pass of check_consistency that directly follows a pass that
\* returned, with the bibliographies and citation references unchanged in
\* between, leaves self.citations as the first pass left it (same length,
\* order, ids, labels).
C1_SecondPassKeepsCitations ==
    [][(last.op = "check_consistency" /\ exc = "none"
        /\ last'.op = "check_consistency"
        /\ bibliographies' = bibliographies
        /\ citation_refs' = citation_refs)
       => citations' = citations]_vars

\* C2: after a full build and an incremental rebuild (clear_doc of the
\* changed documents, their directives and roles read again, one pass),
\* self.citations is what one pass over the current bibliographies and
\* citation references appends to an empty list.
C2_IncrementalEqualsFresh ==
    (build = "incremental" /\ last.op = "check_consistency")
    => citations = Resolve(bibliographies, citation_refs).citations

\* C3: in a pass that returned, of the Citations of one key in listings
\* with list_ = "citation", when there are several, the first has a
\* citation_id and each later one has none and exactly one duplicate
\* citation warning located at its listing.
C3_FirstCitationListingWins ==
    PassReturned =>
    \A i \in PassIndices :
        (/\ InCitationList(i)
         /\ \E j \in PassIndices \ {i} :
                InCitationList(j) /\ citations[j].key = citations[i].key)
        => IF \A j \in PassIndices :
                  (j < i /\ InCitationList(j))
                  => citations[j].key # citations[i].key
           THEN citations[i].citation_id # None
           ELSE /\ citations[i].citation_id = None
                /\ Occurrences(log, DuplicateCitationWarning(
                       citations[i].key,
                       BibOf(bibliographies, citations[i].bibliography_id))) = 1

\* C4: after the pass of a full build or of an incremental rebuild, no two
\* Citations of self.citations have the same citation_id other than None.
C4_CitationIdsUnique ==
    (last.op = "check_consistency" /\ build \in {"full", "incremental"}) =>
    \A i, j \in DOMAIN citations :
        (i # j /\ citations[i].citation_id # None)
        => citations[i].citation_id # citations[j].citation_id

\* the keys that the Citations of the last pass give the label
KeysOfLabel(label) ==
    {citations[i].key : i \in {j \in PassIndices : citations[j].label = label}}

\* how many duplicate label warnings the log holds for the label
LabelWarningCount(label) ==
    Cardinality({i \in DOMAIN log :
                    /\ log[i].msg = "duplicate label for keys"
                    /\ log[i].label = label})

\* C5: in a pass that returned, a label that the Citations of the pass give
\* to two or more distinct keys has exactly one duplicate label warning, a
\* label given to one key has none, and there is no such warning for any
\* other label.
C5_OneWarningPerCollidingLabel ==
    PassReturned =>
    /\ \A i \in PassIndices :
           LabelWarningCount(citations[i].label)
           = IF Cardinality(KeysOfLabel(citations[i].label)) >= 2 THEN 1 ELSE 0
    /\ \A i \in DOMAIN log :
           log[i].msg = "duplicate label for keys"
           => /\ \E j \in PassIndices : citations[j].label = log[i].label
              /\ log[i].keys = KeysOfLabel(log[i].label)

\* a pass returned, a label of it is given to two distinct keys and warned
\* about once, and a label of it that two Citations share for one key is
\* not warned about
C5_Witness ==
    /\ PassReturned
    /\ \E i \in PassIndices :
           /\ Cardinality(KeysOfLabel(citations[i].label)) >= 2
           /\ LabelWarningCount(citations[i].label) = 1
    /\ \E i, j \in PassIndices :
           /\ i # j
           /\ citations[i].label = citations[j].label
           /\ Cardinality(KeysOfLabel(citations[i].label)) = 1
           /\ LabelWarningCount(citations[i].label) = 0

\* C6: no exception of the filter expression of a listing (a type mismatch
\* in %, in an ordering comparison, in "in" or in | and & among them) leaves
\* check_consistency: the pass returns, and the listing has logged a
\* warning with its document and line.
C6_FilterErrorsRecovered ==
    last.op = "check_consistency" =>
    /\ exc \notin {"TypeError", "re.error"}
    /\ \A i \in DOMAIN bibliographies :
           (\E p \in Range(get_bibliography_entries(
                               bibliographies[i].bibfiles,
                               bibliographies[i].keyprefix)) :
                EntrySelection(p[2], bibliographies[i], citation_refs).warned)
           => FilterWarning(bibliographies[i]) \in Range(log)

\* new is old restricted to the places in kept, in the same order
IsSelection(old, new, kept) ==
    /\ Len(new) = Cardinality(kept)
    /\ \A i \in kept : new[Cardinality({j \in kept : j <= i})] = old[i]

\* what merge_domaindata(docnames, otherdata) may do to the bibliographies
\* bibs and citation references refs of the registry, newbibs and newrefs
\* being what it leaves: the citation references of otherdata whose
\* document is in docnames are appended, in their order, and no other; the
\* bibliographies of otherdata whose document is in docnames are in the
\* registry, every bibliography of the registry was there or is one of
\* them, and the bibliographies of documents not in docnames stay as and
\* where they were
MergeFrame(docnames, otherdata, bibs, refs, newbibs, newrefs) ==
    /\ Len(newrefs) >= Len(refs)
    /\ SubSeq(newrefs, 1, Len(refs)) = refs
    /\ IsSelection(otherdata.citation_refs,
                   SubSeq(newrefs, Len(refs) + 1, Len(newrefs)),
                   {i \in DOMAIN otherdata.citation_refs :
                        otherdata.citation_refs[i].docname \in docnames})
    /\ \A b \in Range(otherdata.bibliographies) :
           b.docname \in docnames => b \in Range(newbibs)
    /\ \A b \in Range(newbibs) :
           \/ b \in Range(bibs)
           \/ b \in Range(otherdata.bibliographies) /\ b.docname \in docnames
    /\ Len(newbibs) >= Len(bibs)
    /\ \A i \in DOMAIN bibs :
           bibs[i].docname \notin docnames => newbibs[i] = bibs[i]
    /\ \A i, j \in DOMAIN newbibs : newbibs[i].id = newbibs[j].id => i = j

\* C7: merge_domaindata(docnames, otherdata) adds to the registry exactly
\* the bibliographies and citation references of otherdata whose document
\* is in docnames; those of other documents are not added, and what the
\* registry holds for documents not in docnames is unchanged.
C7_MergeAddsAllowedOnly ==
    [][last'.op = "merge_domaindata"
       => MergeFrame(last'.arg.docnames, last'.arg.otherdata,
                     bibliographies, citation_refs,
                     bibliographies', citation_refs')]_vars

\* a merge has run on a registry that held a citation reference, with
\* otherdata holding a bibliography and a citation reference of a document
\* in docnames, which are now in the registry
C7_Witness ==
    /\ last.op = "merge_domaindata"
    /\ Len(citation_refs) >= 2
    /\ \E b \in Range(last.arg.otherdata.bibliographies) :
           b.docname \in last.arg.docnames /\ b \in Range(bibliographies)
    /\ \E r \in Range(last.arg.otherdata.citation_refs) :
           /\ r.docname \in last.arg.docnames
           /\ r = citation_refs[Len(citation_refs)]

\* C8: merge_domaindata never changes self.citations, and it fails an
\* assertion when the registry or otherdata holds a Citation.
C8_MergeRejectsCitations ==
    [][last'.op = "merge_domaindata"
       => /\ citations' = citations
          /\ (citations # <<>> \/ last'.arg.otherdata.citations # <<>>)
             => exc' = "AssertionError"]_vars

\* a merge has failed its assertion because otherdata held Citations while
\* the registry held none
C8_Witness ==
    /\ last.op = "merge_domaindata"
    /\ exc = "AssertionError"
    /\ citations = <<>>
    /\ last.arg.otherdata.citations # <<>>

\* what clear_doc(docname) does to the registry: the bibliographies and
\* citation references of other documents, and the Citations whose
\* bibliography is not of docname, are what is left, in their order
ClearFrame(docname, bibs, refs, cits, newbibs, newrefs, newcits) ==
    /\ IsSelection(bibs, newbibs,
                   {i \in DOMAIN bibs : bibs[i].docname # docname})
    /\ IsSelection(refs, newrefs,
                   {i \in DOMAIN refs : refs[i].docname # docname})
    /\ IsSelection(cits, newcits,
                   {i \in DOMAIN cits :
                        \A b \in Range(bibs) :
                            b.id = cits[i].bibliography_id
                            => b.docname # docname})

\* C9: clear_doc(docname) returns, having removed every bibliography and
\* citation reference of docname and every Citation whose bibliography is
\* of docname, and having left those of the other documents unchanged and
\* in the same relative order.
C9_ClearDocFrame ==
    [][last'.op = "clear_doc"
       => /\ exc' = "none"
          /\ ClearFrame(last'.arg, bibliographies, citation_refs, citations,
                        bibliographies', citation_refs', citations')]_vars

\* clear_doc(doc1) has run after a pass over a project in which doc1 held
\* the only cite role and one of three bibliographies: the Citations of the
\* two bibliographies of index are left, in the order the citations of doc1
\* gave them, and the citation reference of doc1 is gone
C9_Witness ==
    /\ last = [op |-> "clear_doc", arg |-> doc1]
    /\ exc = "none"
    /\ build = "invalidated"
    /\ citation_refs = <<>>
    /\ Len(bibliographies) = 2
    /\ [i \in DOMAIN citations |-> citations[i].entry_key]
       = <<KeyA, KeyA1, KeyA_, KeyA, KeyA1, KeyA_>>
    /\ \A i \in DOMAIN citations :
           BibOf(bibliographies, citations[i].bibliography_id).docname = index

\* the key is cited by some citation reference of the registry
IsCited(key) == \E r \in Range(citation_refs) : key \in Range(r.keys)

\* the places where the key is cited: the place of the document in the
\* order of the documents, the line of the role in it, the place in the role
CitePlaces(key) ==
    UNION {{<<IndexIn(citation_refs[i].docname, get_docnames),
              citation_refs[i].line, p>> :
                p \in {q \in DOMAIN citation_refs[i].keys :
                           citation_refs[i].keys[q] = key}} :
           i \in DOMAIN citation_refs}

\* place x comes before place y
PlaceBefore(x, y) ==
    \/ x[1] < y[1]
    \/ x[1] = y[1] /\ x[2] < y[2]
    \/ x[1] = y[1] /\ x[2] = y[2] /\ x[3] < y[3]

\* the first place where the key is cited
FirstCitePlace(key) ==
    CHOOSE x \in CitePlaces(key) :
        \A y \in CitePlaces(key) : x = y \/ PlaceBefore(x, y)

\* the first place of the key in the entries of the bib files of b
FilePlace(b, key) ==
    CHOOSE i \in DOMAIN get_bibliography_entries(b.bibfiles, b.keyprefix) :
        /\ get_bibliography_entries(b.bibfiles, b.keyprefix)[i][1] = key
        /\ \A j \in 1 .. (i - 1) :
               get_bibliography_entries(b.bibfiles, b.keyprefix)[j][1] # key

\* key1 comes before key2: cited keys first, by their first place, then
\* the others in the order of the bib files
KeyBefore(b, key1, key2) ==
    IF IsCited(key1)
    THEN ~IsCited(key2)
         \/ PlaceBefore(FirstCitePlace(key1), FirstCitePlace(key2))
    ELSE ~IsCited(key2) /\ FilePlace(b, key1) < FilePlace(b, key2)

\* the entries of the bib files of b that its filter selects
SelectedEntries(b) ==
    {p[2] : p \in {q \in Range(get_bibliography_entries(b.bibfiles,
                                                        b.keyprefix)) :
                       EntrySelection(q[2], b, citation_refs).success}}

\* no two entries of the bib files of b have the same key
KeysDistinct(b) ==
    \A i, j \in DOMAIN get_bibliography_entries(b.bibfiles, b.keyprefix) :
        get_bibliography_entries(b.bibfiles, b.keyprefix)[i][1]
        = get_bibliography_entries(b.bibfiles, b.keyprefix)[j][1] => i = j

\* the entries handed to the style, given the outcome of
\* get_sorted_bibliography_entries, are the selected ones, ordered by KeyBefore
HandedInOrder(b, handed) ==
    /\ {b.keyprefix \o handed[i].key : i \in DOMAIN handed}
       = {b.keyprefix \o e.key : e \in SelectedEntries(b)}
    /\ \A i, j \in DOMAIN handed :
           i < j => KeyBefore(b, b.keyprefix \o handed[i].key,
                              b.keyprefix \o handed[j].key)
    /\ Range(handed) \subseteq SelectedEntries(b)
    /\ KeysDistinct(b) => Range(handed) = SelectedEntries(b)

SortedInOrder(b, sorted) ==
    sorted.exc = "none"
    => HandedInOrder(b, Values(DictOf(sorted.pairs, <<>>)))

\* C10: for every bibliography whose entries are fetched without an
\* exception, the entries handed to the style are the entries its filter
\* selects, each key once: first those that are cited, by the first place
\* where they are cited (the document in the order of the documents, then
\* the occurrence in it), then those that are not cited, in the order of
\* the bib files.
C10_StyleInputOrder ==
    \A i \in DOMAIN bibliographies :
        SortedInOrder(bibliographies[i],
                      get_sorted_bibliography_entries(
                          bibliographies[i], citation_refs, get_docnames))

\* a pass has run over a registry where index cites b, a and doc1 cites
\* a, c, the role of doc1 having been read first, with a bibliography that
\* selects a, b, c, d: its Citations are those of b, a, c, d, in this order
C10_Witness ==
    /\ PassReturned
    /\ last.arg = 0
    /\ [i \in DOMAIN citation_refs |-> citation_refs[i].keys]
       = << <<KeyA, KeyC>>, <<KeyB, KeyA>> >>
    /\ [i \in DOMAIN citations |-> citations[i].entry_key]
       = <<KeyB, KeyA, KeyC, <<"d">> >>

\* the order in which a build from scratch reads the documents: by name
ReadOrder == <<doc1, index, orphan>>

\* the elements of seq (bibliographies or citation references) document by
\* document, in the order of docnames
RECURSIVE InReadOrder(_, _)
InReadOrder(seq, docnames) ==
    IF docnames = <<>> THEN <<>>
    ELSE RefsOf(seq, docnames[1]) \o InReadOrder(seq, Tail(docnames))

\* what the Citations cits say listing by listing: for each, the listing,
\* its place among the Citations of the listing, its key and its id
ListingView(cits) ==
    {<<cits[i].bibliography_id,
       Cardinality({j \in 1 .. i :
                        cits[j].bibliography_id = cits[i].bibliography_id}),
       cits[i].key, cits[i].citation_id>> : i \in DOMAIN cits}

\* the same without the ids: the order of the entries of each listing
OrderView(cits) == {<<v[1], v[2], v[3]>> : v \in ListingView(cits)}

\* C11: the Citations that the pass of an incremental rebuild makes give
\* each listing the entries, in the order, and the citation_ids that the
\* pass of a build from scratch of the same documents gives it.
C11_IncrementalLikeFromScratch ==
    (build = "incremental" /\ last.op = "check_consistency")
    => ListingView(SubSeq(citations, last.arg + 1, Len(citations)))
       = ListingView(Resolve(InReadOrder(bibliographies, ReadOrder),
                             InReadOrder(citation_refs, ReadOrder)).citations)

\* resolve_xref has just run and returned
XrefReturned == last.op = "resolve_xref" /\ exc = "none"

\* the keys of the target of the last resolve_xref
XrefKeys == TargetKeys(last.arg.target)

\* the children of the element that render the keys: those that are not
\* Text (the brackets and the commas are)
Renderings ==
    LET Renders(child) == child.kind # "Text"
    IN  SelectSeq(node, Renders)

\* the places in self.citations of the Citations of the key in listings
\* with list_ = "citation"
LinkablePlaces(key) ==
    {i \in DOMAIN citations : citations[i].key = key /\ InCitationList(i)}

\* the listings with list_ = "citation" that hold the key
LinkableListings(key) ==
    {citations[i].bibliography_id : i \in LinkablePlaces(key)}

\* the latest of the Citations of the key in listings with list_ = "citation"
LatestLinkable(key) ==
    citations[CHOOSE i \in LinkablePlaces(key) :
                  \A j \in LinkablePlaces(key) : j <= i]

\* the kind of reference node of the builder
ReferenceKind(builder) ==
    IF builder = "latex" THEN "citation_reference" ELSE "reference"

\* C12: when resolve_xref returns, each key of the target that is in
\* exactly one listing with list_ = "citation" is rendered as a reference
\* node, of the kind of the builder, whose anchor is the citation_id and
\* whose text is the label of the Citation that the latest pass made for
\* the key in that listing.
C12_ReferenceHasIdAndLabel ==
    XrefReturned =>
    /\ Len(Renderings) = Len(XrefKeys)
    /\ \A i \in DOMAIN XrefKeys :
           Cardinality(LinkableListings(XrefKeys[i])) = 1
           => /\ Renderings[i].kind = ReferenceKind(last.arg.builder)
              /\ Renderings[i].refid = LatestLinkable(XrefKeys[i]).citation_id
              /\ Renderings[i].text = LatestLinkable(XrefKeys[i]).label

\* resolve_xref has returned, for the latex builder, a reference to a key
\* that one listing with list_ = "citation" holds, with the id and the
\* label of its Citation, the key being also in a listing of another kind
C12_Witness ==
    /\ XrefReturned
    /\ last.arg.builder = "latex"
    /\ \E i \in DOMAIN XrefKeys :
           /\ Cardinality(LinkableListings(XrefKeys[i])) = 1
           /\ \E j \in DOMAIN citations :
                  citations[j].key = XrefKeys[i] /\ ~InCitationList(j)
           /\ Renderings[i].kind = "citation_reference"
           /\ Renderings[i].refid # None
           /\ Renderings[i].refid = LatestLinkable(XrefKeys[i]).citation_id
           /\ Renderings[i].text = LatestLinkable(XrefKeys[i]).label

\* the warnings that the keys of the target would give, were none found
NotFoundWarnings == [i \in DOMAIN XrefKeys |-> KeyNotFoundWarning(XrefKeys[i])]

\* C13: resolve_xref always returns; each key of the target that no
\* Citation of a listing with list_ = "citation" has is rendered as its
\* bare text and has one key-not-found warning of its own, in the order of
\* the target; each other key is rendered as a reference node and has no
\* warning.
C13_MissingKeysWarned ==
    last.op = "resolve_xref" =>
    /\ exc = "none"
    /\ Len(Renderings) = Len(XrefKeys)
    /\ \A i \in DOMAIN XrefKeys :
           IF LinkablePlaces(XrefKeys[i]) = {}
           THEN Renderings[i] = InlineNode(XrefKeys[i])
           ELSE Renderings[i].kind = ReferenceKind(last.arg.builder)
    /\ IsSelection(NotFoundWarnings, log,
                   {i \in DOMAIN XrefKeys : LinkablePlaces(XrefKeys[i]) = {}})

\* resolve_xref has returned for a target of three keys, the second of
\* which is in no listing: it is rendered as text between two references
\* and it alone is warned about
C13_Witness ==
    /\ XrefReturned
    /\ Len(XrefKeys) = 3
    /\ Renderings[1].kind = "reference"
    /\ Renderings[2] = InlineNode(<<"z", "z">>)
    /\ Renderings[3].kind = "reference"
    /\ log = <<KeyNotFoundWarning(<<"z", "z">>)>>

\* C14: a pass over a registry with a citation reference of a document that
\* is not in the order of the documents (an orphan) returns without an
\* exception.
C14_OrphanCitationResolved ==
    (/\ last.op = "check_consistency"
     /\ \E r \in Range(citation_refs) : r.docname \notin Range(get_docnames))
    => exc = "none"

\* the expression of the filter of b
FilterExpr(b) == ParseFilter(b.filter_).body[1].value

\* what the visitor of b is given for the entry
FilterContext(b, entry) ==
    [entry |-> entry, docname |-> b.docname,
     cited_docnames |-> CitedDocnames(b.keyprefix \o entry.key, citation_refs)]

\* the operands of the expression: those of "and" and "or", else itself
Operands(expr) ==
    IF expr.node = "BoolOp" THEN Range(expr.values) ELSE {expr}

\* C15: "and" and "or" evaluate every operand: when an operand of the
\* filter of a listing, evaluated on an entry, fails, so does the filter.
C15_EveryOperandEvaluated ==
    \A b \in Range(bibliographies) :
        \A p \in Range(get_bibliography_entries(b.bibfiles, b.keyprefix)) :
            (\E operand \in Operands(FilterExpr(b)) :
                 visit(operand, FilterContext(b, p[2])).exc # "none")
            => visit(FilterExpr(b), FilterContext(b, p[2])).exc # "none"

\* the filter of b holds unsupported syntax: an operand of it fails with
\* ValueError
Unsupported(b) ==
    \E p \in Range(get_bibliography_entries(b.bibfiles, b.keyprefix)) :
        \E operand \in Operands(FilterExpr(b)) :
            visit(operand, FilterContext(b, p[2])).exc = "ValueError"

\* C16: when the filter of a listing holds unsupported syntax, each entry
\* of its bib files is selected iff a citation reference holds its key, and
\* the warning of the listing is logged.
C16_UnsupportedFallsBack ==
    \A b \in Range(bibliographies) :
        Unsupported(b)
        => /\ \A p \in Range(get_bibliography_entries(b.bibfiles,
                                                      b.keyprefix)) :
                  /\ EntrySelection(p[2], b, citation_refs).exc = "none"
                  /\ EntrySelection(p[2], b, citation_refs).success
                     = (\E r \in Range(citation_refs) : p[1] \in Range(r.keys))
           /\ \E p \in Range(get_bibliography_entries(b.bibfiles,
                                                      b.keyprefix)) :
                  EntrySelection(p[2], b, citation_refs).warned

\* C17: the Citations that one pass makes for one listing have pairwise
\* distinct keys, also when the bib files of the listing hold an entry key
\* more than once.
C17_ListingKeysDistinct ==
    last.op = "check_consistency" =>
    \A i, j \in PassIndices :
        (i # j /\ citations[i].bibliography_id = citations[j].bibliography_id)
        => citations[i].key # citations[j].key

\* a pass has returned and made a Citation for a listing whose two bib
\* files both hold the key of the Citation
C17_Witness ==
    /\ PassReturned
    /\ \E i \in PassIndices :
           /\ ~KeysDistinct(BibOf(bibliographies, citations[i].bibliography_id))
           /\ Cardinality(
                  {p \in DOMAIN get_bibliography_entries(
                       BibOf(bibliographies,
                             citations[i].bibliography_id).bibfiles,
                       BibOf(bibliographies,
                             citations[i].bibliography_id).keyprefix) :
                      get_bibliography_entries(
                          BibOf(bibliographies,
                                citations[i].bibliography_id).bibfiles,
                          BibOf(bibliographies,
                                citations[i].bibliography_id).keyprefix)[p][1]
                      = citations[i].key}) = 2

\* the keys of the target that have Citations, none of them in a listing
\* with list_ = "citation"
UnlinkableKeyPlaces ==
    {i \in DOMAIN XrefKeys :
        /\ LinkablePlaces(XrefKeys[i]) = {}
        /\ \E j \in DOMAIN citations : citations[j].key = XrefKeys[i]}

\* C18: a Citation of a listing whose list_ is not "citation" has no
\* citation_id; a pass logs no duplicate citation warning at such a
\* listing; and resolve_xref renders a key that only such listings hold as
\* a key that is not found: its bare text, with the warning.
C18_OtherListsNeverLinked ==
    /\ \A i \in DOMAIN citations :
           ~InCitationList(i) => citations[i].citation_id = None
    /\ last.op = "check_consistency"
       => \A b \in Range(bibliographies) :
              b.list_ # "citation"
              => \A w \in Range(log) :
                     w.msg = "duplicate citation for key"
                     => w.location # <<b.docname, b.line>>
    /\ XrefReturned
       => \A i \in UnlinkableKeyPlaces :
              /\ Renderings[i] = InlineNode(XrefKeys[i])
              /\ KeyNotFoundWarning(XrefKeys[i]) \in Range(log)

\* resolve_xref has returned for a target with a key that has a Citation,
\* without id, in a listing that is not a citation list and in no other
\* listing: the key is rendered as text and warned about
C18_Witness ==
    /\ XrefReturned
    /\ \E i \in UnlinkableKeyPlaces :
           /\ \E j \in DOMAIN citations :
                  /\ citations[j].key = XrefKeys[i]
                  /\ ~InCitationList(j)
                  /\ citations[j].citation_id = None
           /\ Renderings[i] = InlineNode(XrefKeys[i])
           /\ KeyNotFoundWarning(XrefKeys[i]) \in Range(log)

\* each key that the targets kept and keys hold is rendered in shown as it
\* is in rendered, the renderings of kept
SameRenderings(kept, rendered, keys, shown) ==
    \A i \in DOMAIN kept, j \in DOMAIN keys :
        kept[i] = keys[j] => rendered[i] = shown[j]

RECURSIVE CommaCount(_)
CommaCount(children) ==
    IF children = <<>> THEN 0
    ELSE (IF Head(children) = TextNode(<<",">>) THEN 1 ELSE 0)
         + CommaCount(Tail(children))

\* the child of the element next after the rendering of the key at place i
\* of the target: renderings are the children that are not Text
RECURSIVE AfterRendering(_, _)
AfterRendering(children, i) ==
    IF Head(children).kind = "Text" THEN AfterRendering(Tail(children), i)
    ELSE IF i = 1 THEN Head(Tail(children))
    ELSE AfterRendering(Tail(children), i - 1)

\* C20: the element that resolve_xref returns for a target with n keys has
\* exactly n - 1 commas, one after the rendering of every key but the last,
\* whether the keys are found or not.
C20_CommaBetweenKeys ==
    XrefReturned =>
        /\ CommaCount(node) = Len(XrefKeys) - 1
        /\ \A i \in 1 .. (Len(XrefKeys) - 1) :
               AfterRendering(node, i) = TextNode(<<",">>)

\* a pass of check_consistency has returned and nothing has cleared the
\* registry since: the last operation is the pass or a resolve_xref after
\* it, or Citations of a pass are in the registry
ResolverHasRun ==
    \/ last.op \in {"check_consistency", "resolve_xref"} /\ exc = "none"
    \/ citations # <<>>

\* C21: an operation that is out of its phase is rejected: a registration
\* or a merge after a pass of check_consistency has returned raises, and so
\* does a second pass that follows a returned pass with no reset between.
C21_PhasesEnforced ==
    [][/\ (ResolverHasRun
           /\ last'.op \in {"register_listing", "register_citation_ref",
                            "merge_domaindata"})
          => exc' # "none"
       /\ (last.op = "check_consistency" /\ exc = "none"
           /\ last'.op = "check_consistency")
          => exc' # "none"
      ]_vars

\* the merge of the step is one of a build lifecycle: the build is in its
\* reading stage, the first one or the one after clear_doc has followed a
\* completed build; the worker's registry holds no Citation; and the
\* receiving registry holds nothing of the documents that are merged
\* (they are new or were cleared)
LifecycleMerge ==
    /\ build \in {"none", "invalidated"}
    /\ last'.op = "merge_domaindata"
    /\ last'.arg.otherdata.citations = <<>>
    /\ \A d \in last'.arg.docnames :
           Progress(bibliographies, citation_refs, d) = 0

\* C22: a merge of a build lifecycle, also of an incremental rebuild after
\* a completed build, finds no Citation in the receiving registry and does
\* not fail its assertions.
C22_LifecycleMergeSucceeds ==
    [][LifecycleMerge => (citations = <<>> /\ exc' = "none")]_vars

\* C23: the bibliography of every Citation is in the registry, whatever
\* registrations, clear_doc, merges and passes have run, and no operation
\* raises KeyError when it looks up the bibliography of a Citation.
C23_CitationListingsRegistered ==
    /\ \A i \in DOMAIN citations :
           HasId(bibliographies, citations[i].bibliography_id)
    /\ exc # "KeyError"

\* clear_doc has returned after a completed build for a document that has
\* a bibliography directive, and Citations of other documents' listings
\* are left in the registry
C23_Witness ==
    /\ last.op = "clear_doc"
    /\ exc = "none"
    /\ build = "invalidated"
    /\ \E line \in DOMAIN corpus.documents[last.arg] :
           corpus.documents[last.arg][line].kind = "bibliography"
    /\ citations # <<>>
    /\ \A i \in DOMAIN citations :
           BibOf(bibliographies, citations[i].bibliography_id).docname
               # last.arg

\* the citation_ids, other than None, of the Citations of the key in
\* listings with list_ = "citation"
LinkableIds(key) ==
    {citations[j].citation_id : j \in LinkablePlaces(key)} \ {None}

\* C24: after the pass of a build from scratch, resolve_xref gives a key
\* that has a Citation with a citation_id in a citation list a reference
\* that carries such a citation_id, also when a later citation list holds a
\* Citation of the key without one.
C24_ReferenceCarriesId ==
    (XrefReturned /\ build = "full") =>
        \A i \in DOMAIN XrefKeys :
            LinkableIds(XrefKeys[i]) # {}
            => Renderings[i].refid \in LinkableIds(XrefKeys[i])

====
